---- MODULE Spec2Model ----
(***************************************************************************)
(* Model of src/src/content.js: the content script that reads the film's   *)
(* identifiers from a Letterboxd film page, optionally looks the TMDb ID   *)
(* up over the network, and renders the provider's service links.          *)
(*                                                                         *)
(* JavaScript values are records [k, v]: k is the type tag ("undefined",   *)
(* "null", "str", "num", and "unread" for a local not yet assigned), v the *)
(* characters of a string or the decimal digits of a number.  Strings are  *)
(* sequences of one-character strings.                                     *)
(***************************************************************************)
EXTENDS Naturals, Sequences, FiniteSets

VARIABLES
  page,           \* the host page and its environment, as found at load time
  dom,            \* the part of the document the script changes
  pc,             \* where the onload handler stands
  query,          \* const query      (content.js:145)
  imdbId,         \* const imdbId     (content.js:146)
  tmdbId,         \* const tmdbId     (content.js:147)
  fetchedTmdbId,  \* let fetchedTmdbId (content.js:149)
  requests,       \* the HTTP requests issued so far
  response,       \* the Response fetch resolved with, while its body is read
  console,        \* the console.error messages, in order
  providerCalls   \* the argument lists globalThis.getServices was called with

vars == <<page, dom, pc, query, imdbId, tmdbId, fetchedTmdbId, requests,
          response, console, providerCalls>>

\* ------------------------------------------------------------------ bounds

MaxHrefLen == 7
MaxServices == 2
MaxResults == 2

\* --------------------------------------------------------------- JS values

JsUndefined == [k |-> "undefined", v |-> <<>>]
JsNull == [k |-> "null", v |-> <<>>]
Unread == [k |-> "unread", v |-> <<>>]
Str(s) == [k |-> "str", v |-> s]
Num(digits) == [k |-> "num", v |-> digits]

IsNullish(x) == x.k \in {"undefined", "null"}

\* ToBoolean: undefined, null, "" and 0 are falsy.
Truthy(x) ==
  CASE x.k \in {"undefined", "null", "unread"} -> FALSE
    [] x.k = "str" -> x.v # <<>>
    [] x.k = "num" -> x.v # <<"0">>
    [] OTHER -> TRUE

Digits == {"0", "1", "2", "3", "4", "5", "6", "7", "8", "9"}
Whitespace == {" ", "\t", "\n"}

\* ----------------------------------------------------------------- strings

RECURSIVE Split(_)
\* String.prototype.split("/"): the segments between the slashes ("" splits
\* into the one segment "").
Split(s) ==
  LET slashes == {i \in 1..Len(s) : s[i] = "/"} IN
  IF slashes = {} THEN <<s>>
  ELSE LET i == CHOOSE j \in slashes : \A m \in slashes : j <= m
       IN <<SubSeq(s, 1, i - 1)>> \o Split(SubSeq(s, i + 1, Len(s)))

StartsWith(s, p) == Len(s) >= Len(p) /\ SubSeq(s, 1, Len(p)) = p

\* /^\d+$/.test(s)
IsNumeric(s) == Len(s) > 0 /\ \A i \in 1..Len(s) : s[i] \in Digits

RECURSIVE ReplaceWhitespace(_)
\* s.replace(/\s+/g, "-"): each maximal run of whitespace becomes one hyphen.
ReplaceWhitespace(s) ==
  IF s = <<>> THEN <<>>
  ELSE IF s[1] \in Whitespace
       THEN LET rest == Tail(s)
                skip == CHOOSE n \in 0..Len(rest) :
                          /\ \A i \in 1..n : rest[i] \in Whitespace
                          /\ (n < Len(rest) => rest[n + 1] \notin Whitespace)
            IN <<"-">> \o ReplaceWhitespace(SubSeq(rest, skip + 1, Len(rest)))
       ELSE <<s[1]>> \o ReplaceWhitespace(Tail(s))

\* encodeURIComponent, on the characters the model's URLs are made of: the
\* unreserved characters are kept, every other one is percent-encoded.
EncodeChar(c) ==
  CASE c = "/" -> <<"%", "2", "F">>
    [] c = ":" -> <<"%", "3", "A">>
    [] c = " " -> <<"%", "2", "0">>
    [] c = "?" -> <<"%", "3", "F">>
    [] OTHER -> <<c>>

RECURSIVE EncodeURIComponent(_)
EncodeURIComponent(s) ==
  IF s = <<>> THEN <<>> ELSE EncodeChar(s[1]) \o EncodeURIComponent(Tail(s))

\* ------------------------------------------------------- reading the page

\* document.querySelector(sel)?.href: undefined when no element matches.
Href(button) == IF button.present THEN button.href ELSE JsUndefined

\* getImdbID's validation of the fifth segment left out.
GetImdbIDUnvalidated(url) ==
  IF url.k # "str" THEN JsNull
  ELSE LET parts == Split(url.v) IN
       IF Len(parts) < 5 THEN JsNull ELSE Str(parts[5])

\* getImdbID, given the .href read from .micro-button.
GetImdbID(url) ==
  IF url.k # "str" THEN JsNull
  ELSE LET parts == Split(url.v) IN
       IF Len(parts) < 5 THEN JsNull
       ELSE IF StartsWith(parts[5], <<"t", "t">>) THEN Str(parts[5]) ELSE JsNull

\* getTmdbID, given the .href read from .tmdb-button.
GetTmdbID(url) ==
  IF url.k # "str" THEN JsNull
  ELSE LET parts == Split(url.v)
           id == parts[Len(parts)]
       IN IF id # <<>> /\ IsNumeric(id) THEN Str(id) ELSE JsNull

\* getQuery: details is the .details container, with the innerText of its
\* h1 (title) and of its .releaseyear > a (year), undefined when not found.
\* The year is read and left out of rawQuery.
GetQuery(details) ==
  LET title == IF details.present THEN details.title ELSE JsUndefined
      year == IF details.present THEN details.year ELSE JsUndefined
      rawQuery == IF IsNullish(title) THEN <<>> ELSE title.v
  IN Str(ReplaceWhitespace(rawQuery))

\* The regular expression of getLetterboxdFilmName, up to its group; "ANY"
\* stands for the unescaped dot, which matches any character.
FilmPattern ==
  <<"l", "e", "t", "t", "e", "r", "b", "o", "x", "d", "ANY", "c", "o", "m",
    "/", "f", "i", "l", "m", "/">>

\* getLetterboxdFilmName: the first match of /letterboxd.com\/film\/([^/]+)/
\* in the location, its group being the longest run of non-slashes.
GetLetterboxdFilmName(url) ==
  LET n == Len(FilmPattern)
      MatchAt(i) ==
        /\ i + n <= Len(url)
        /\ \A j \in 1..n : FilmPattern[j] = "ANY" \/ url[i + j - 1] = FilmPattern[j]
        /\ url[i + n] # "/"
      starts == {i \in 1..Len(url) : MatchAt(i)}
  IN IF starts = {} THEN JsNull
     ELSE LET i == CHOOSE a \in starts : \A b \in starts : a <= b
              from == i + n
              to == CHOOSE e \in from..Len(url) :
                      /\ \A m \in from..e : url[m] # "/"
                      /\ (e < Len(url) => url[e + 1] = "/")
          IN Str(SubSeq(url, from, to))

\* The lookup is attempted whatever the page's TMDb ID is.
NeedsLookupAlways(id) == TRUE

\* if (!fetchedTmdbId), fetchedTmdbId being the page's TMDb ID.
NeedsLookup(id) == ~Truthy(id)

\* The request fetch issues for a film name.
ApiRequest(filmName) ==
  [method |-> "GET", endpoint |-> "api.themoviedb.org/3/search/movie",
   query |-> EncodeURIComponent(filmName.v)]

\* ------------------------------------------------------------ the lookup

MovieNotFound == "Movie not found on TMDb"
ErrorFetching == "Error fetching TMDb data:"
FailedToRetrieve == "Failed to retrieve query, IMDb ID, or TMDb ID."

NoBody == [kind |-> "none", hasResults |-> FALSE, results |-> <<>>]

\* The try block of fetchTmdbIdFromLetterboxd, given how the network call
\* went.  It throws when fetch rejects, when the body is not JSON, when the
\* body is the JSON null (data.results of null) and when the first result is
\* null (results[0].id of null).
TryBlock(net) ==
  LET thrown == [threw |-> TRUE, value |-> JsUndefined, logs |-> <<>>]
      data == net.body
  IN IF net.fetchRejected THEN thrown
     ELSE IF data.kind = "notjson" THEN thrown
     ELSE IF data.kind = "null" THEN thrown
     ELSE IF data.kind = "object" /\ data.hasResults /\ Len(data.results) > 0
          THEN IF data.results[1].isNull THEN thrown
               ELSE [threw |-> FALSE, value |-> data.results[1].id, logs |-> <<>>]
          ELSE [threw |-> FALSE, value |-> JsNull, logs |-> <<MovieNotFound>>]

\* The catch block left out: what the try block throws rejects the promise.
CatchBlockRethrows(t) ==
  [rejected |-> t.threw, value |-> t.value, logs |-> t.logs]

\* The catch block: whatever the try block threw is logged and null returned.
CatchBlock(t) ==
  IF t.threw
  THEN [rejected |-> FALSE, value |-> JsNull, logs |-> t.logs \o <<ErrorFetching>>]
  ELSE [rejected |-> FALSE, value |-> t.value, logs |-> t.logs]

\* fetchTmdbIdFromLetterboxd: how its promise settles.
FetchTmdbIdFromLetterboxd(net) == CatchBlock(TryBlock(net))

\* ------------------------------------------------------------- rendering

\* initPage that inserts the services section whether #watch exists or not.
InitPageAlwaysInserts(d) ==
  [headStyles |-> d.headStyles + 1,
   watch |-> FALSE,
   services |-> [present |-> TRUE, items |-> <<>>]]

\* initPage: the style element is appended to the head; #watch, when it
\* exists, is replaced by a new section.services, which has no children.
InitPage(d) ==
  [headStyles |-> d.headStyles + 1,
   watch |-> FALSE,
   services |-> IF d.watch THEN [present |-> TRUE, items |-> <<>>] ELSE d.services]

\* The p.service element addService builds from a descriptor.
ServiceItem(serviceData) ==
  [tag |-> "p", class |-> "service",
   link |-> [tag |-> "a", href |-> serviceData.url, target |-> "_blank", class |-> "label"],
   brand |-> [tag |-> "img", src |-> serviceData.icon, width |-> "20", height |-> "20"],
   title |-> serviceData.name]

\* addService that puts the new item first.
AddServiceFirst(d, serviceData) ==
  IF ~d.services.present THEN d
  ELSE [d EXCEPT !.services.items = <<ServiceItem(serviceData)>> \o @]

\* addService: nothing is done when the document has no .services element.
AddService(d, serviceData) ==
  IF ~d.services.present THEN d
  ELSE [d EXCEPT !.services.items = Append(@, ServiceItem(serviceData))]

\* The loop left after its first service.
AddServicesFirstOnly(d, services) ==
  IF services = <<>> THEN d ELSE AddService(d, services[1])

RECURSIVE AddServices(_, _)
\* for (const service of services) addService(service)
AddServices(d, services) ==
  IF services = <<>> THEN d
  ELSE AddServices(AddService(d, services[1]), Tail(services))

\* The diagnostic of the failure path left out.
ReportFailureSilent(cons) == cons

\* console.error("Failed to retrieve query, IMDb ID, or TMDb ID.")
ReportFailure(cons) == Append(cons, FailedToRetrieve)

\* Only the query is required.
GuardFailsQueryOnly(q, im, ft) == ~Truthy(q)

\* if (!query || (!imdbId && !fetchedTmdbId))
GuardFails(q, im, ft) == ~Truthy(q) \/ (~Truthy(im) /\ ~Truthy(ft))

\* globalThis.getServices?.(query, imdbId, fetchedTmdbId) || []: the list is
\* empty when no provider is installed and when the provider returns a
\* falsy value.
GetServicesOrEmpty(provider) ==
  IF ~provider.present THEN <<>>
  ELSE IF provider.returnsNull THEN <<>> ELSE provider.list

\* ------------------------------------------------- the pages of the model

ImdbTitleUrl ==
  <<"h", "t", "t", "p", ":", "/", "/", "i", "m", "d", "b", ".", "c", "o", "m",
    "/", "t", "i", "t", "l", "e", "/">>
TmdbMovieUrl ==
  <<"h", "t", "t", "p", ":", "/", "/", "t", "m", "d", "b", ".", "o", "r", "g",
    "/", "m", "o", "v", "i", "e", "/">>
LetterboxdUrl ==
  <<"h", "t", "t", "p", ":", "/", "/", "l", "e", "t", "t", "e", "r", "b", "o", "x",
    "d", ".", "c", "o", "m", "/">>

NoButton == [present |-> FALSE, href |-> JsUndefined]
Button(href) == [present |-> TRUE, href |-> href]

\* .micro-button: absent; an IMDb title link; a link whose fifth segment is
\* no IMDb ID; an anchor without href (its .href is "").
MicroButtons ==
  {NoButton,
   Button(Str(ImdbTitleUrl \o <<"t", "t", "0", "1", "/", "m">>)),
   Button(Str(ImdbTitleUrl \o <<"n", "m", "0", "1", "/">>)),
   Button(Str(<<>>))}

\* .tmdb-button: absent; a TMDb movie link; the same ending with a slash; a
\* link whose last segment is not a number.
TmdbButtons ==
  {NoButton,
   Button(Str(TmdbMovieUrl \o <<"6", "0", "3">>)),
   Button(Str(TmdbMovieUrl \o <<"6", "0", "3", "/">>)),
   Button(Str(TmdbMovieUrl \o <<"6", "0", "3", "-", "x">>))}

\* .details: absent; without h1; with a title holding runs of whitespace and
\* a year; with a title and no year.
DetailsSamples ==
  {[present |-> FALSE, title |-> JsUndefined, year |-> JsUndefined],
   [present |-> TRUE, title |-> JsUndefined, year |-> Str(<<"1", "9", "9", "9">>)],
   [present |-> TRUE, title |-> Str(<<"T", "h", "e", " ", "\t", "U", "p", " ">>),
    year |-> Str(<<"1", "9", "9", "9">>)],
   [present |-> TRUE, title |-> Str(<<"U", "p">>), year |-> JsUndefined]}

\* window.location.href: a film page; a page that is no film page; the film
\* path with nothing after it.
Locations ==
  {LetterboxdUrl \o <<"f", "i", "l", "m", "/", "u", "p", ":", "2", "/", "f", "a", "n", "s">>,
   LetterboxdUrl \o <<"f", "i", "l", "m", "s", "/">>,
   LetterboxdUrl \o <<"f", "i", "l", "m", "/">>}

ServiceDatas ==
  {[name |-> "n1", url |-> "u1", icon |-> "i1"],
   [name |-> "n2", url |-> "u2", icon |-> "i2"]}

SeqsUpTo(S, n) == UNION {[1..m -> S] : m \in 0..n}

\* globalThis.getServices: not installed; returning null; returning a list
\* of descriptors.
Providers ==
  {[present |-> FALSE, returnsNull |-> FALSE, list |-> <<>>],
   [present |-> TRUE, returnsNull |-> TRUE, list |-> <<>>]}
  \cup {[present |-> TRUE, returnsNull |-> FALSE, list |-> l] :
          l \in SeqsUpTo(ServiceDatas, MaxServices)}

Pages ==
  [micro : MicroButtons, tmdb : TmdbButtons, details : DetailsSamples,
   watch : BOOLEAN, location : Locations, getServices : Providers]

\* An element of a results array: null, or an object with its id: a number,
\* as in the API's answers, or a string.
ResultElems ==
  {[isNull |-> TRUE, id |-> JsUndefined],
   [isNull |-> FALSE, id |-> Num(<<"6", "0", "3">>)],
   [isNull |-> FALSE, id |-> Num(<<"1", "1">>)],
   [isNull |-> FALSE, id |-> Str(<<"6", "0", "3">>)]}

\* The bodies a response can carry: not JSON; the JSON null; a JSON scalar;
\* an object without results; an object with a results array.
Bodies ==
  {[kind |-> "notjson", hasResults |-> FALSE, results |-> <<>>],
   [kind |-> "null", hasResults |-> FALSE, results |-> <<>>],
   [kind |-> "scalar", hasResults |-> FALSE, results |-> <<>>],
   [kind |-> "object", hasResults |-> FALSE, results |-> <<>>]}
  \cup {[kind |-> "object", hasResults |-> TRUE, results |-> r] :
          r \in SeqsUpTo(ResultElems, MaxResults)}

\* ------------------------------------------------------ the onload handler

InitialDom(p) ==
  [headStyles |-> 0, watch |-> p.watch,
   services |-> [present |-> FALSE, items |-> <<>>]]

Init ==
  /\ page \in Pages
  /\ dom = InitialDom(page)
  /\ pc = "loaded"
  /\ query = Unread
  /\ imdbId = Unread
  /\ tmdbId = Unread
  /\ fetchedTmdbId = Unread
  /\ requests = <<>>
  /\ response = NoBody
  /\ console = <<>>
  /\ providerCalls = <<>>

\* content.js:143
OnloadInitPage ==
  /\ pc = "loaded"
  /\ dom' = InitPage(dom)
  /\ pc' = "inited"
  /\ UNCHANGED <<page, query, imdbId, tmdbId, fetchedTmdbId, requests, response,
                 console, providerCalls>>

\* content.js:159-167, with the identifiers q, im and ft and the console as
\* it stands: the failure path, or the provider's services added one by one.
Finish(q, im, ft, cons) ==
  /\ pc' = "done"
  /\ IF GuardFails(q, im, ft)
     THEN /\ console' = ReportFailure(cons)
          /\ UNCHANGED <<dom, providerCalls>>
     ELSE /\ console' = cons
          /\ providerCalls' = IF page.getServices.present
                              THEN Append(providerCalls, <<q, im, ft>>)
                              ELSE providerCalls
          /\ dom' = AddServices(dom, GetServicesOrEmpty(page.getServices))

\* content.js:145-155, on a page whose TMDb ID is missing and whose location
\* names a film: the request is issued and the handler awaits the lookup.
OnloadReadAndLookup ==
  /\ pc = "inited"
  /\ LET tm == GetTmdbID(Href(page.tmdb))
         filmName == GetLetterboxdFilmName(page.location)
     IN /\ NeedsLookup(tm) /\ Truthy(filmName)
        /\ query' = GetQuery(page.details)
        /\ imdbId' = GetImdbID(Href(page.micro))
        /\ tmdbId' = tm
        /\ fetchedTmdbId' = tm
        /\ requests' = Append(requests, ApiRequest(filmName))
        /\ pc' = "awaitFetch"
  /\ UNCHANGED <<page, dom, response, console, providerCalls>>

\* content.js:145-167, when no lookup is made: the handler runs to its end.
OnloadReadAndFinish ==
  /\ pc = "inited"
  /\ LET tm == GetTmdbID(Href(page.tmdb))
         filmName == GetLetterboxdFilmName(page.location)
         q == GetQuery(page.details)
         im == GetImdbID(Href(page.micro))
     IN /\ ~(NeedsLookup(tm) /\ Truthy(filmName))
        /\ query' = q
        /\ imdbId' = im
        /\ tmdbId' = tm
        /\ fetchedTmdbId' = tm
        /\ Finish(q, im, tm, console)
  /\ UNCHANGED <<page, requests, response>>

\* The promise of fetchTmdbIdFromLetterboxd settles with r: a rejection is
\* thrown by the await of content.js:155, which nothing catches.
LookupSettles(r) ==
  /\ console' = console \o r.logs
  /\ IF r.rejected
     THEN pc' = "threw" /\ UNCHANGED fetchedTmdbId
     ELSE pc' = "resume" /\ fetchedTmdbId' = r.value
  /\ UNCHANGED <<page, dom, query, imdbId, tmdbId, requests, providerCalls>>

\* content.js:65: fetch rejects.
FetchRejects ==
  /\ pc = "awaitFetch"
  /\ LookupSettles(FetchTmdbIdFromLetterboxd([fetchRejected |-> TRUE, body |-> NoBody]))
  /\ UNCHANGED response

\* content.js:65: fetch resolves with a response.
FetchResolves ==
  /\ pc = "awaitFetch"
  /\ \E body \in Bodies : response' = body
  /\ pc' = "awaitJson"
  /\ UNCHANGED <<page, dom, query, imdbId, tmdbId, fetchedTmdbId, requests,
                 console, providerCalls>>

\* content.js:66-78: response.json() settles and the lookup with it.
JsonSettles ==
  /\ pc = "awaitJson"
  /\ LookupSettles(FetchTmdbIdFromLetterboxd([fetchRejected |-> FALSE, body |-> response]))
  /\ UNCHANGED response

\* content.js:155-167: the handler resumes with the lookup's value.
Resume ==
  /\ pc = "resume"
  /\ Finish(query, imdbId, fetchedTmdbId, console)
  /\ UNCHANGED <<page, query, imdbId, tmdbId, fetchedTmdbId, requests, response>>

Next ==
  \/ OnloadInitPage
  \/ OnloadReadAndLookup
  \/ OnloadReadAndFinish
  \/ FetchRejects
  \/ FetchResolves
  \/ JsonSettles
  \/ Resume

Spec == Init /\ [][Next]_vars

\* The event loop runs the handler's continuation once the lookup has settled.
FairSpec == Spec /\ WF_vars(Resume)

\* --------------------------------------- identifier extraction, by itself

HrefChars == {"/", "t", "7", "a"}

\* Every href of up to MaxHrefLen characters, on either button, and the page
\* without the buttons.
ExtractInit ==
  /\ \E b \in {NoButton} \cup {Button(Str(h)) : h \in SeqsUpTo(HrefChars, MaxHrefLen)} :
       page = [micro |-> b, tmdb |-> b,
               details |-> [present |-> FALSE, title |-> JsUndefined, year |-> JsUndefined],
               watch |-> FALSE, location |-> <<>>,
               getServices |-> [present |-> FALSE, returnsNull |-> FALSE, list |-> <<>>]]
  /\ dom = InitialDom(page)
  /\ pc = "loaded"
  /\ query = Unread
  /\ imdbId = Unread
  /\ tmdbId = Unread
  /\ fetchedTmdbId = Unread
  /\ requests = <<>>
  /\ response = NoBody
  /\ console = <<>>
  /\ providerCalls = <<>>

\* content.js:146
ReadImdbID ==
  /\ imdbId = Unread
  /\ imdbId' = GetImdbID(Href(page.micro))
  /\ UNCHANGED <<page, dom, pc, query, tmdbId, fetchedTmdbId, requests, response,
                 console, providerCalls>>

\* content.js:147
ReadTmdbID ==
  /\ tmdbId = Unread
  /\ tmdbId' = GetTmdbID(Href(page.tmdb))
  /\ UNCHANGED <<page, dom, pc, query, imdbId, fetchedTmdbId, requests, response,
                 console, providerCalls>>

ExtractNext == ReadImdbID \/ ReadTmdbID

SpecExtract == ExtractInit /\ [][ExtractNext]_vars

\* ------------------------------------------------------------------ claims

SlashesBefore(s, i) == Cardinality({j \in 1..(i - 1) : s[j] = "/"})
NumSlashes(s) == SlashesBefore(s, Len(s) + 1)

\* The characters after the fourth slash, up to the fifth slash or the end.
FifthSegment(s) ==
  LET first == CHOOSE i \in 1..Len(s) : s[i] = "/" /\ SlashesBefore(s, i) = 3
      last == CHOOSE e \in first..Len(s) :
                /\ \A m \in (first + 1)..e : s[m] # "/"
                /\ (e < Len(s) => s[e + 1] = "/")
  IN SubSeq(s, first + 1, last)

\* The characters after the last slash (the whole string when it has none).
LastSegment(s) ==
  LET at == {i \in 1..Len(s) : s[i] = "/"}
      from == IF at = {} THEN 0 ELSE CHOOSE i \in at : \A j \in at : j <= i
  IN SubSeq(s, from + 1, Len(s))

\* C7: getImdbID returns the fifth '/'-separated segment of the .micro-button
\* href when that segment starts with "tt" and null otherwise, also when the
\* button is absent; getTmdbID returns the last segment of the .tmdb-button
\* href when it is a non-empty string of decimal digits and null otherwise,
\* also when the href ends with '/'.
C7_ExtractionValidates ==
  /\ imdbId # Unread =>
       imdbId = IF /\ page.micro.present
                   /\ NumSlashes(page.micro.href.v) >= 4
                   /\ Len(FifthSegment(page.micro.href.v)) >= 2
                   /\ FifthSegment(page.micro.href.v)[1] = "t"
                   /\ FifthSegment(page.micro.href.v)[2] = "t"
                THEN Str(FifthSegment(page.micro.href.v))
                ELSE JsNull
  /\ tmdbId # Unread =>
       tmdbId = IF /\ page.tmdb.present
                   /\ LastSegment(page.tmdb.href.v) # <<>>
                   /\ \A i \in 1..Len(LastSegment(page.tmdb.href.v)) :
                        LastSegment(page.tmdb.href.v)[i] \in Digits
                THEN Str(LastSegment(page.tmdb.href.v))
                ELSE JsNull
  /\ (tmdbId # Unread /\ page.tmdb.present /\ page.tmdb.href.v # <<>>
        /\ page.tmdb.href.v[Len(page.tmdb.href.v)] = "/") => tmdbId = JsNull

\* Both identifiers have been read from an href that yields an IMDb ID, and
\* so has a last segment that is no number.
C7_Witness ==
  /\ imdbId.k = "str"
  /\ tmdbId = JsNull
  /\ page.micro.present

\* What the run so far shows of the lookup and of the handler's path.
LookupIssued == requests # <<>>
LookupSettled == LookupIssued /\ pc \in {"resume", "done", "threw"}
FetchRejected == LookupSettled /\ response = NoBody
BodyRead == LookupSettled /\ response # NoBody
BodyNotJson == BodyRead /\ response.kind = "notjson"
NoResults ==
  BodyRead /\ response.kind # "notjson" /\ (~response.hasResults \/ response.results = <<>>)
LookupFailed == FetchRejected \/ BodyNotJson \/ NoResults
FailedLogged == \E i \in 1..Len(console) : console[i] = FailedToRetrieve
Rendered == dom.services.items
ReturnedList ==
  IF page.getServices.present /\ ~page.getServices.returnsNull
  THEN page.getServices.list ELSE <<>>
\* Item i of the rendered items carries descriptor i of the provider's list.
AllDescriptorsAppended ==
  /\ Len(Rendered) = Len(ReturnedList)
  /\ \A i \in 1..Len(ReturnedList) :
       /\ Rendered[i].title = ReturnedList[i].name
       /\ Rendered[i].link.href = ReturnedList[i].url
       /\ Rendered[i].brand.src = ReturnedList[i].icon
RenderedIsReturnedList == dom.services.present /\ AllDescriptorsAppended
IdentifiersOk == Truthy(query) /\ (Truthy(imdbId) \/ Truthy(fetchedTmdbId))

\* C1: whichever page elements are missing and however the network call
\* fails, the handler never ends in an uncaught exception or rejection: a
\* missing button gives a null identifier, missing details the empty query,
\* and a failed lookup null.
C1_NoFatalPath ==
  /\ pc \in {"loaded", "inited", "awaitFetch", "awaitJson", "resume", "done"}
  /\ (imdbId # Unread /\ ~page.micro.present => imdbId = JsNull)
  /\ (tmdbId # Unread /\ ~page.tmdb.present => tmdbId = JsNull)
  /\ (query # Unread /\ ~page.details.present => query = Str(<<>>))
  /\ (LookupSettled /\ LookupFailed => fetchedTmdbId = JsNull)

\* The handler has finished on a page without any of the four elements,
\* after a network call that failed.
C1_Witness ==
  /\ pc = "done"
  /\ FetchRejected
  /\ ~page.micro.present /\ ~page.tmdb.present
  /\ ~page.details.present /\ ~page.watch

AnyFailure ==
  \/ ~page.micro.present \/ ~page.tmdb.present
  \/ ~page.details.present \/ ~page.watch
  \/ LookupFailed
ProviderHasServices == ReturnedList # <<>>

\* C2, as claimed: when the handler has finished after a failure (a missing
\* selector, #watch included, a failed network call, no results) and for
\* that reason none of the provider's services is rendered, a console.error
\* has been emitted.
C2_EveryFailureLogged ==
  (pc = "done" /\ AnyFailure /\ ProviderHasServices /\ Rendered = <<>>)
    => console # <<>>

\* C2, amended: the same on the pages that have a #watch section; when
\* #watch is missing addService returns without a diagnostic.
C2_FailureLoggedWhenWatchExists ==
  (pc = "done" /\ page.watch /\ AnyFailure /\ ProviderHasServices /\ Rendered = <<>>)
    => console # <<>>

\* The handler has finished without rendering, on a page with #watch and
\* no .details, and the diagnostic is in the console.
C2_Witness ==
  /\ pc = "done"
  /\ page.watch /\ ~page.details.present
  /\ ProviderHasServices /\ Rendered = <<>>
  /\ FailedLogged

\* C3: at most one request is issued in a page load; it is issued exactly
\* when getTmdbID returned null and getLetterboxdFilmName returned a slug;
\* with a valid TMDb ID on the page no request is made and that ID is the
\* one used.
C3_AtMostOneRequest ==
  /\ Len(requests) <= 1
  /\ (tmdbId # Unread =>
        (LookupIssued <=>
           (tmdbId = JsNull /\ GetLetterboxdFilmName(page.location).k = "str")))
  /\ (tmdbId.k = "str" =>
        /\ ~LookupIssued
        /\ fetchedTmdbId = tmdbId
        /\ \A i \in 1..Len(providerCalls) : providerCalls[i][3] = tmdbId)
  /\ (LookupIssued => requests[1].method = "GET")

\* The handler has finished after a lookup that failed, with the one
\* request it made.
C3_Witness ==
  /\ pc = "done"
  /\ Len(requests) = 1
  /\ LookupFailed

\* C4, as claimed: once the handler has passed the identifier check, the
\* provider has been called exactly once with (query, imdbId, resolved TMDb
\* ID) and the services section holds one item per returned descriptor, in
\* the provider's order, with that descriptor's name, url and icon.
C4_ProviderDeterminesRendered ==
  (pc = "done" /\ ~FailedLogged) =>
    /\ Len(providerCalls) = 1
    /\ providerCalls[1] = <<query, imdbId, fetchedTmdbId>>
    /\ AllDescriptorsAppended

\* C4, amended: the same when a provider is installed and the page had a
\* #watch section; without a provider nothing is called and nothing is
\* rendered, and without #watch nothing is rendered either.
C4_ProviderDeterminesRenderedWhenPresent ==
  (pc = "done" /\ ~FailedLogged) =>
    /\ (page.getServices.present =>
          /\ Len(providerCalls) = 1
          /\ providerCalls[1] = <<query, imdbId, fetchedTmdbId>>)
    /\ (~page.getServices.present => providerCalls = <<>> /\ Rendered = <<>>)
    /\ (page.watch => RenderedIsReturnedList)
    /\ (~page.watch => ~dom.services.present /\ Rendered = <<>>)

\* Two different services have been rendered.
C4_Witness ==
  /\ pc = "done"
  /\ Len(providerCalls) = 1
  /\ Len(Rendered) = 2
  /\ Rendered[1] # Rendered[2]

EndsWith(s, e) == Len(s) >= Len(e) /\ SubSeq(s, Len(s) - Len(e) + 1, Len(s)) = e

\* C5: the query is made of the title and the release year read from
\* .details, without whitespace, and is empty when the details are missing.
C5_QueryHasTitleAndYear ==
  query # Unread =>
    /\ (~page.details.present => query = Str(<<>>))
    /\ \A i \in 1..Len(query.v) : query.v[i] \notin Whitespace
    /\ (page.details.present /\ page.details.title.k = "str"
          /\ page.details.year.k = "str") =>
         /\ query.v # <<>>
         /\ query.v[1] = page.details.title.v[1]
         /\ EndsWith(query.v, page.details.year.v)

\* C6: the lookup never rejects and gives null or a string: the first
\* result's identifier when there are results, null when the lookup fails;
\* and the TMDb ID handed to the provider is null or a string of digits.
C6_LookupNullOrString ==
  /\ pc # "threw"
  /\ LookupSettled =>
       /\ fetchedTmdbId = JsNull \/ fetchedTmdbId.k = "str"
       /\ LookupFailed => fetchedTmdbId = JsNull
       /\ (BodyRead /\ response.kind = "object" /\ response.results # <<>>
             /\ ~response.results[1].isNull) =>
            fetchedTmdbId = response.results[1].id
  /\ \A i \in 1..Len(providerCalls) :
       \/ providerCalls[i][3] = JsNull
       \/ /\ providerCalls[i][3].k = "str"
          /\ providerCalls[i][3].v # <<>>
          /\ \A j \in 1..Len(providerCalls[i][3].v) : providerCalls[i][3].v[j] \in Digits

\* C8, as claimed: the provider is invoked, and items can be appended, if
\* and only if the query is non-empty and the IMDb ID or the resolved TMDb
\* ID is truthy; otherwise the failure is logged, the provider not called
\* and nothing appended; a page with a valid IMDb ID and a title renders
\* its services even when the lookup failed.
C8_ProviderIffIdentifiers ==
  pc = "done" =>
    /\ (providerCalls # <<>>) <=> IdentifiersOk
    /\ Rendered # <<>> => IdentifiersOk
    /\ ~IdentifiersOk => (FailedLogged /\ providerCalls = <<>> /\ Rendered = <<>>)
    /\ (imdbId.k = "str" /\ Truthy(query) /\ LookupFailed) =>
         (~FailedLogged /\ AllDescriptorsAppended)

\* C8, amended: the provider call is reached if and only if the identifiers
\* are there, and the provider is invoked then when one is installed; the
\* services of the page with an IMDb ID and a failed lookup are rendered
\* when the page had a #watch section.
C8_CallSiteIffIdentifiers ==
  pc = "done" =>
    /\ (providerCalls # <<>>) <=> (IdentifiersOk /\ page.getServices.present)
    /\ Rendered # <<>> => IdentifiersOk
    /\ FailedLogged <=> ~IdentifiersOk
    /\ ~IdentifiersOk => (providerCalls = <<>> /\ Rendered = <<>>)
    /\ (imdbId.k = "str" /\ Truthy(query) /\ LookupFailed) =>
         /\ ~FailedLogged
         /\ page.watch => AllDescriptorsAppended

\* A page with an IMDb ID has its services rendered after a failed lookup.
C8_Witness ==
  /\ pc = "done"
  /\ imdbId.k = "str"
  /\ LookupFailed
  /\ Rendered # <<>>

\* C9, as claimed (its final state): once the lookup has settled and the
\* handler has finished, every descriptor of the provider has been appended
\* or a failure diagnostic has been logged; and nothing is rendered while
\* the lookup is pending.
C9_DoneAppendedOrLogged ==
  /\ (pc = "done" /\ LookupIssued) => (console # <<>> \/ AllDescriptorsAppended)
  /\ pc \in {"awaitFetch", "awaitJson"} => Rendered = <<>>

\* C9, amended, the state part: what holds once the handler has finished
\* after a lookup, and while the lookup is pending.
C9_AmendedState ==
  /\ (pc = "done" /\ LookupIssued) =>
       \/ FailedLogged
       \/ page.watch /\ AllDescriptorsAppended
       \/ ~page.watch /\ Rendered = <<>>
  /\ pc \in {"awaitFetch", "awaitJson"} => (Rendered = <<>> /\ providerCalls = <<>>)

\* C9, amended: once the lookup has settled the handler terminates, having
\* logged the failure or passed every descriptor to addService, which
\* appends it when the page had a #watch section and drops it otherwise;
\* nothing is rendered while the lookup is pending.
C9_SettledLeadsToDone ==
  /\ []C9_AmendedState
  /\ (LookupIssued /\ pc \notin {"awaitFetch", "awaitJson"}) ~> (pc = "done")

\* The handler has finished after a lookup, with two services rendered.
C9_Witness ==
  /\ pc = "done"
  /\ LookupIssued
  /\ BodyRead
  /\ Len(Rendered) = 2

\* C10: initPage runs first and whatever the page holds: the style element
\* is in the head, #watch is gone and the empty services section is in its
\* place before any identifier is read; the failure path leaves that
\* section empty; without #watch there is never a services section nor an
\* item.
C10_InitPageFrame ==
  /\ pc = "loaded" => dom = InitialDom(page)
  /\ pc # "loaded" =>
       /\ dom.headStyles = 1
       /\ ~dom.watch
       /\ dom.services.present <=> page.watch
       /\ ~page.watch => Rendered = <<>>
  /\ pc = "inited" =>
       /\ query = Unread /\ imdbId = Unread /\ tmdbId = Unread
       /\ Rendered = <<>>
  /\ (pc = "done" /\ FailedLogged) => Rendered = <<>>

\* The failure path has ended on a page that had a #watch section.
C10_Witness ==
  /\ pc = "done"
  /\ FailedLogged
  /\ page.watch
  /\ dom.services.present /\ Rendered = <<>>

====
